---- MODULE Spec2Model ----
(***************************************************************************)
(* Model of tech_test_qa.py: the PostgresDB wrapper, the pandas validation *)
(* primitives and the batch script that runs them.                         *)
(*                                                                         *)
(* Library calls are modelled by what they do:                             *)
(*   psycopg2  connection.closed is 0 while open, 1 after close(), 2 once  *)
(*             the driver has found the connection broken, which it does   *)
(*             when execute() or commit() fails because the connection was *)
(*             lost; rollback() on a connection whose closed flag is not 0 *)
(*             raises InterfaceError.                                      *)
(*   pandas    a float64 column holds NaN for a missing value, an object   *)
(*             column holds None.  duplicated() puts all missing values of *)
(*             a column in one group; isin() and the comparison operators  *)
(*             give False for a missing value.  Iterating a float64 Series *)
(*             builds a new Python float per element, and nan == nan is    *)
(*             False, so two NaN never compare equal inside a tuple; None  *)
(*             is one object and equals itself.                            *)
(***************************************************************************)
EXTENDS Integers, Sequences, FiniteSets

VARIABLES
    connection,  \* PostgresDB._connection: 0 is None, else an index of conns
    conns,       \* every connection psycopg2.connect has returned, in order
    last,        \* what the last PostgresDB call did
    pc,          \* position in the script, or in the call of a primitive
    step,        \* number of the next step of the running validator
    df_users,    \* the script's df_users
    df_trades,   \* the script's df_trades
    log,         \* print_log lines of the validators, in order
    result,      \* value the last validator check returned
    args,        \* arguments of the primitive under call
    ret          \* what the primitive returned

vars == <<connection, conns, last, pc, step, df_users, df_trades, log, result, args, ret>>

\* ---------------------------------------------------------------- bounds

MaxConns == 3
MaxCloseCalls == 2
MaxRows == 3
MaxParentRows == 2

\* ------------------------------------------------------------ PostgresDB

NoCall == [op |-> "none", opened |-> FALSE, exec |-> "-", commit |-> "-",
           txn |-> "none", logged |-> FALSE, raised |-> "none", result |-> "-"]

NewConnection == [closed |-> 0, closeCalls |-> 0]

ExecOutcomes == {"rows", "norows", "sqlerror", "connlost"}
CommitOutcomes == {"ok", "error", "connlost"}

\* line 19: the guard of _connect
NeedsConnectAlways(c, cs) == TRUE

NeedsConnect(c, cs) == c = 0 \/ cs[c].closed # 0

\* lines 36-52 once _connect has returned: the connection in use is cs[c].
\* exec is what cursor.execute does, commit what connection.commit does.
Execute(c, cs, opened, exec, commit) ==
    LET executed == exec \in {"rows", "norows"}
        fetched  == IF exec = "rows" THEN "rows" ELSE "None"
        failed   == ~executed \/ commit # "ok"
        lost     == exec = "connlost" \/ (executed /\ commit = "connlost")
        cs1      == IF lost THEN [cs EXCEPT ![c].closed = 2] ELSE cs
        rollbackRaises == failed /\ cs1[c].closed # 0
    IN  [connection |-> c,
         conns |-> cs1,
         last |-> [op |-> "run_query", opened |-> opened, exec |-> exec,
                   commit |-> IF executed THEN commit ELSE "-",
                   txn |-> IF ~failed THEN "commit"
                           ELSE IF rollbackRaises THEN "none" ELSE "rollback",
                   logged |-> failed,
                   raised |-> IF rollbackRaises THEN "rollback" ELSE "none",
                   result |-> IF rollbackRaises THEN "-" ELSE fetched]]

\* lines 27-52: run_query, with _connect (lines 17-25) inlined
RunQuery(c, cs, connectOk, exec, commit) ==
    IF NeedsConnect(c, cs)
    THEN IF connectOk
         THEN Execute(Len(cs) + 1, Append(cs, NewConnection), TRUE, exec, commit)
         ELSE [connection |-> c, conns |-> cs,
               last |-> [op |-> "run_query", opened |-> FALSE, exec |-> "-",
                         commit |-> "-", txn |-> "none", logged |-> TRUE,
                         raised |-> "connect", result |-> "-"]]
    ELSE Execute(c, cs, FALSE, exec, commit)

\* lines 54-58: close
Close(c, cs) ==
    IF c # 0
    THEN [cs EXCEPT ![c].closed = 1, ![c].closeCalls = @ + 1]
    ELSE cs

CanRunQuery == NeedsConnect(connection, conns) => Len(conns) < MaxConns

Live(cs) == {i \in 1..Len(cs) : cs[i].closed = 0}

\* ------------------------------------------- PostgresDB under any caller

InitDb ==
    /\ connection = 0
    /\ conns = <<>>
    /\ last = NoCall
    /\ pc = "db"
    /\ step = 0
    /\ df_users = <<>>
    /\ df_trades = <<>>
    /\ log = <<>>
    /\ result = FALSE
    /\ args = <<>>
    /\ ret = <<>>

DbRunQuery ==
    /\ pc = "db"
    /\ CanRunQuery
    /\ \E connectOk \in BOOLEAN, exec \in ExecOutcomes, commit \in CommitOutcomes :
         LET r == RunQuery(connection, conns, connectOk, exec, commit)
         IN  /\ connection' = r.connection
             /\ conns' = r.conns
             /\ last' = r.last
    /\ UNCHANGED <<pc, step, df_users, df_trades, log, result, args, ret>>

DbClose ==
    /\ pc = "db"
    /\ connection # 0 => conns[connection].closeCalls < MaxCloseCalls
    /\ conns' = Close(connection, conns)
    /\ last' = [NoCall EXCEPT !.op = "close"]
    /\ UNCHANGED <<connection, pc, step, df_users, df_trades, log, result, args, ret>>

NextDb == DbRunQuery \/ DbClose

SpecDb == InitDb /\ [][NextDb]_vars

\* ------------------------------------------------------ table validators

\* A frame as the script sees it: None (run_query returned no table), or a
\* table in which the columns of `missing` do not exist.
NoFrame == [none |-> TRUE, missing |-> {}]
Frame(m) == [none |-> FALSE, missing |-> m]

UsersColumns == {"login_hash", "server_hash", "country_hash", "currency", "enable"}

TradesColumns == {"login_hash", "ticket_hash", "server_hash", "symbol", "digits", "cmd",
                  "volume", "open_time", "close_time", "open_price", "contractsize"}

LoadedFrames(cols) == {Frame({})} \cup {Frame({c}) : c \in cols}

UsersSteps == 3
TradesSteps == 11

\* the columns each numbered check names
StepColumns(v, k) ==
    IF v = "users"
    THEN CASE k = 1 -> {}
           [] k = 2 -> {"enable"}
           [] k = 3 -> UsersColumns
    ELSE CASE k = 1 -> {}
           [] k = 2 -> {"login_hash", "ticket_hash", "server_hash", "open_time"}
           [] k = 3 -> {"digits"}
           [] k = 4 -> {"cmd"}
           [] k = 5 -> {"volume"}
           [] k = 6 -> {"cmd"}
           [] k = 7 -> {"open_time"}
           [] k = 8 -> {"close_time"}
           [] k = 9 -> TradesColumns \ {"close_time"}
           [] k = 10 -> {"volume"}
           [] k = 11 -> {"close_time", "open_time"}

\* the checks that order values with > (check_column_greater_than)
StepCompares(v, k) == v = "trades" /\ k \in {10, 11}

\* A check raises on a missing frame (attribute lookup on None), on a missing
\* column, and, in a comparison, on values the column's type cannot order.
CheckRaises(df, v, k, typeError) ==
    \/ df.none
    \/ StepColumns(v, k) \cap df.missing # {}
    \/ StepCompares(v, k) /\ typeError

\* the step that follows check k, whatever value it returned
StepAfterStopOnFalse(k, value) == IF value THEN k + 1 ELSE TradesSteps + 1

StepAfter(k, value) == k + 1

\* the line print_log writes before a check, and the one that shows its value
Started(v, k) == [validator |-> v, step |-> k, kind |-> "start", value |-> FALSE]
Reported(v, k, value) == [validator |-> v, step |-> k, kind |-> "result", value |-> value]

\* ------------------------------------------------------------ the script

SelectOutcomes == {"rows", "sqlerror", "connlost"}

InitRun ==
    /\ connection = 0
    /\ conns = <<>>
    /\ last = NoCall
    /\ pc = "load_users"
    /\ step = 0
    /\ df_users = NoFrame
    /\ df_trades = NoFrame
    /\ log = <<>>
    /\ result = FALSE
    /\ args = <<>>
    /\ ret = <<>>

\* line 353
LoadUsers ==
    /\ pc = "load_users"
    /\ \E connectOk \in BOOLEAN, exec \in SelectOutcomes, commit \in CommitOutcomes :
         LET r == RunQuery(connection, conns, connectOk, exec, commit)
         IN  /\ connection' = r.connection
             /\ conns' = r.conns
             /\ last' = r.last
             /\ IF r.last.raised # "none"
                THEN /\ pc' = "aborted"
                     /\ df_users' = df_users
                ELSE /\ pc' = "load_trades"
                     /\ IF r.last.result = "rows"
                        THEN df_users' \in LoadedFrames(UsersColumns)
                        ELSE df_users' = NoFrame
    /\ UNCHANGED <<step, df_trades, log, result, args, ret>>

\* line 354
LoadTrades ==
    /\ pc = "load_trades"
    /\ \E connectOk \in BOOLEAN, exec \in SelectOutcomes, commit \in CommitOutcomes :
         LET r == RunQuery(connection, conns, connectOk, exec, commit)
         IN  /\ connection' = r.connection
             /\ conns' = r.conns
             /\ last' = r.last
             /\ IF r.last.raised # "none"
                THEN /\ pc' = "aborted"
                     /\ step' = step
                     /\ df_trades' = df_trades
                ELSE /\ pc' = "check_users"
                     /\ step' = 1
                     /\ IF r.last.result = "rows"
                        THEN df_trades' \in LoadedFrames(TradesColumns)
                        ELSE df_trades' = NoFrame
    /\ UNCHANGED <<df_users, log, result, args, ret>>

\* lines 267-287, one numbered check per step
CheckUsersStep ==
    /\ pc = "check_users"
    /\ \E typeError \in BOOLEAN, value \in BOOLEAN :
         IF CheckRaises(df_users, "users", step, typeError)
         THEN /\ log' = Append(log, Started("users", step))
              /\ pc' = "aborted"
              /\ UNCHANGED <<step, result>>
         ELSE /\ log' = log \o <<Started("users", step), Reported("users", step, value)>>
              /\ result' = value
              /\ IF StepAfter(step, value) <= UsersSteps
                 THEN /\ step' = StepAfter(step, value)
                      /\ pc' = pc
                 ELSE /\ step' = 1
                      /\ pc' = "check_trades"
    /\ UNCHANGED <<connection, conns, last, df_users, df_trades, args, ret>>

\* lines 289-344, one numbered check per step
CheckTradesStep ==
    /\ pc = "check_trades"
    /\ \E typeError \in BOOLEAN, value \in BOOLEAN :
         IF CheckRaises(df_trades, "trades", step, typeError)
         THEN /\ log' = Append(log, Started("trades", step))
              /\ pc' = "aborted"
              /\ UNCHANGED <<step, result>>
         ELSE /\ log' = log \o <<Started("trades", step), Reported("trades", step, value)>>
              /\ result' = value
              /\ IF StepAfter(step, value) <= TradesSteps
                 THEN /\ step' = StepAfter(step, value)
                      /\ pc' = pc
                 ELSE /\ step' = 1
                      /\ pc' = "foreign_key_check"
    /\ UNCHANGED <<connection, conns, last, df_users, df_trades, args, ret>>

\* lines 363-373
CrossReferenceCheck ==
    /\ pc = "foreign_key_check"
    /\ \E value \in BOOLEAN :
         IF \/ df_trades.none
            \/ df_users.none
            \/ {"login_hash", "server_hash"} \cap (df_trades.missing \cup df_users.missing) # {}
         THEN /\ log' = Append(log, Started("cross", step))
              /\ pc' = "aborted"
              /\ UNCHANGED result
         ELSE /\ log' = log \o <<Started("cross", step), Reported("cross", step, value)>>
              /\ result' = value
              /\ pc' = "close"
    /\ UNCHANGED <<connection, conns, last, step, df_users, df_trades, args, ret>>

\* line 376
CloseConnection ==
    /\ pc = "close"
    /\ conns' = Close(connection, conns)
    /\ last' = [NoCall EXCEPT !.op = "close"]
    /\ pc' = "done"
    /\ UNCHANGED <<connection, step, df_users, df_trades, log, result, args, ret>>

NextRun ==
    \/ LoadUsers
    \/ LoadTrades
    \/ CheckUsersStep
    \/ CheckTradesStep
    \/ CrossReferenceCheck
    \/ CloseConnection

SpecRun == InitRun /\ [][NextRun]_vars

\* ---------------------------------------------------------------- tables

\* A cell of a DataFrame.  Num(n) is the number n; NaN is the missing value
\* of a float64 column, None the missing value of an object column.
Num(n) == [k |-> "num", v |-> n]
NaN == [k |-> "nan", v |-> 0]
None == [k |-> "none", v |-> 0]
NA == [k |-> "na", v |-> 0]

IsNull(x) == x.k # "num"

\* df.columns: column a is float64, column b is object
Columns == <<"a", "b">>
ColumnSet == {Columns[j] : j \in 1..Len(Columns)}

TablesOver(rows, n) == UNION {[1..m -> rows] : m \in 0..n}

All(bs) == \A i \in DOMAIN bs : bs[i]

\* Series.sum() of a boolean Series, from position i on
RECURSIVE CountTrueFrom(_, _)
CountTrueFrom(bs, i) ==
    IF i > Len(bs) THEN 0
    ELSE (IF bs[i] THEN 1 ELSE 0) + CountTrueFrom(bs, i + 1)

CountTrue(bs) == CountTrueFrom(bs, 1)

\* df[mask]: the rows whose mask is True, in order, from position i on
RECURSIVE SelectRowsFrom(_, _, _)
SelectRowsFrom(df, mask, i) ==
    IF i > Len(df) THEN <<>>
    ELSE (IF mask[i] THEN <<df[i]>> ELSE <<>>) \o SelectRowsFrom(df, mask, i + 1)

SelectRows(df, mask) == SelectRowsFrom(df, mask, 1)

Reverse(s) == [i \in 1..Len(s) |-> s[Len(s) + 1 - i]]

\* ------------------------------------------------------ handle_duplicates

\* the key duplicated() hashes for a row: missing values share one code
KeyOf(row, cols) ==
    [j \in 1..Len(cols) |-> IF IsNull(row[cols[j]]) THEN NA ELSE row[cols[j]]]

\* one pass that flags a key already seen
RECURSIVE ScanSeen(_, _, _, _)
ScanSeen(keys, i, seen, flags) ==
    IF i > Len(keys) THEN flags
    ELSE ScanSeen(keys, i + 1, seen \cup {keys[i]}, Append(flags, keys[i] \in seen))

\* one pass that, on a key seen before, flags the row and the key's first row
RECURSIVE ScanBoth(_, _, _, _)
ScanBoth(keys, i, firstAt, flags) ==
    IF i > Len(keys) THEN flags
    ELSE IF \E e \in firstAt : e[1] = keys[i]
         THEN LET e == CHOOSE e \in firstAt : e[1] = keys[i]
              IN  ScanBoth(keys, i + 1, firstAt, [flags EXCEPT ![i] = TRUE, ![e[2]] = TRUE])
         ELSE ScanBoth(keys, i + 1, firstAt \cup {<<keys[i], i>>}, flags)

DuplicatedKeepingFirst(df, cols, keep) ==
    ScanSeen([i \in 1..Len(df) |-> KeyOf(df[i], cols)], 1, {}, <<>>)

\* line 98: df.duplicated(subset=cols, keep=keep)
Duplicated(df, cols, keep) ==
    LET keys == [i \in 1..Len(df) |-> KeyOf(df[i], cols)]
    IN  CASE keep = "first" -> ScanSeen(keys, 1, {}, <<>>)
          [] keep = "last" -> Reverse(ScanSeen(Reverse(keys), 1, {}, <<>>))
          [] keep = "False" -> ScanBoth(keys, 1, {}, [i \in 1..Len(df) |-> FALSE])

AllColumns == [none |-> TRUE, cols |-> <<>>]
Subset(cols) == [none |-> FALSE, cols |-> cols]

NoDuplicates == [raised |-> "none", df |-> <<>>, duplicates |-> <<>>,
                 num_duplicates |-> 0, caller_df |-> <<>>]

HandleDuplicatesKeepingFlagged(df, subset, keep, drop) ==
    LET cols == IF subset.none THEN Columns ELSE subset.cols
    IN  IF \E j \in 1..Len(cols) : cols[j] \notin ColumnSet
        THEN [NoDuplicates EXCEPT !.raised = "KeyError", !.caller_df = df]
        ELSE LET duplicates == Duplicated(df, cols, keep)
             IN  [raised |-> "none",
                  df |-> IF drop THEN SelectRows(df, duplicates) ELSE df,
                  duplicates |-> duplicates,
                  num_duplicates |-> CountTrue(duplicates),
                  caller_df |-> df]

\* lines 79-106.  caller_df is the caller's frame after the call: line 104
\* rebinds the local name to a new frame and leaves the argument alone.
HandleDuplicates(df, subset, keep, drop) ==
    LET cols == IF subset.none THEN Columns ELSE subset.cols
    IN  IF \E j \in 1..Len(cols) : cols[j] \notin ColumnSet
        THEN [NoDuplicates EXCEPT !.raised = "KeyError", !.caller_df = df]
        ELSE LET duplicates == Duplicated(df, cols, keep)
             IN  [raised |-> "none",
                  df |-> IF drop THEN SelectRows(df, [i \in 1..Len(df) |-> ~duplicates[i]])
                         ELSE df,
                  duplicates |-> duplicates,
                  num_duplicates |-> CountTrue(duplicates),
                  caller_df |-> df]

DupRows == [a : {Num(0), Num(1), NaN}, b : {Num(0), None}]
DupSubsets == {AllColumns, Subset(<<"a">>), Subset(<<"b">>), Subset(<<"a", "b">>),
               Subset(<<"a", "zz">>)}
KeepPolicies == {"first", "last", "False"}

InitDup ==
    /\ connection = 0
    /\ conns = <<>>
    /\ last = NoCall
    /\ pc = "call"
    /\ step = 0
    /\ df_users = <<>>
    /\ df_trades = <<>>
    /\ log = <<>>
    /\ result = FALSE
    /\ args \in [df : TablesOver(DupRows, MaxRows), subset : DupSubsets,
                 keep : KeepPolicies, drop : BOOLEAN]
    /\ ret = [given |-> <<>>, first |-> NoDuplicates, again |-> NoDuplicates]

CallHandleDuplicates ==
    /\ pc = "call"
    /\ LET r == HandleDuplicates(args.df, args.subset, args.keep, args.drop)
       IN  /\ ret' = [given |-> args.df, first |-> r, again |-> NoDuplicates]
           /\ args' = [args EXCEPT !.df = r.caller_df]
    /\ pc' = "returned"
    /\ UNCHANGED <<connection, conns, last, step, df_users, df_trades, log, result>>

\* the dropped frame checked again with the same key subset and keep=False
RecheckDropped ==
    /\ pc = "returned"
    /\ args.drop
    /\ ret.first.raised = "none"
    /\ ret' = [ret EXCEPT !.again = HandleDuplicates(ret.first.df, args.subset, "False", FALSE)]
    /\ pc' = "rechecked"
    /\ UNCHANGED <<connection, conns, last, step, df_users, df_trades, log, result, args>>

NextDup == CallHandleDuplicates \/ RecheckDropped

SpecDup == InitDup /\ [][NextDup]_vars

\* ------------------------------------------------------ column predicates

NoColumn == [none |-> TRUE, name |-> ""]
Column(c) == [none |-> FALSE, name |-> c]

\* Series.isin(values) on one cell: a missing value is in no list of numbers
IsInOrNull(x, values) == x.k # "num" \/ x.v \in values

IsIn(x, values) == x.k = "num" /\ x.v \in values

\* lines 114-132
CheckBinaryColumn(df, column_name) ==
    IF column_name \notin ColumnSet
    THEN [raised |-> "ValueError", value |-> FALSE]
    ELSE [raised |-> "none",
          value |-> All([i \in 1..Len(df) |-> IsIn(df[i][column_name], {0, 1})])]

\* the > of lines 223 and 225 on one row: False when either side is missing
GreaterOrEqual(x, y) == x.k = "num" /\ y.k = "num" /\ x.v >= y.v

Greater(x, y) == x.k = "num" /\ y.k = "num" /\ x.v > y.v

\* lines 203-228
CheckColumnGreaterThan(df, column_a, column_b) ==
    IF column_a \notin ColumnSet \/ (~column_b.none /\ column_b.name \notin ColumnSet)
    THEN [raised |-> "ValueError", value |-> FALSE]
    ELSE LET condition ==
                 [i \in 1..Len(df) |->
                     IF ~column_b.none
                     THEN Greater(df[i][column_a], df[i][column_b.name])
                     ELSE Greater(df[i][column_a], Num(0))]
         IN  [raised |-> "none", value |-> All(condition)]

ColRows == [a : {Num(0), Num(1), Num(2), NaN}, b : {Num(0), Num(1), None}]
ColumnNames == {"a", "b", "zz"}
NoCheck == [fn |-> "none", column_a |-> "", column_b |-> NoColumn,
            out |-> [raised |-> "none", value |-> FALSE]]

InitCol ==
    /\ connection = 0
    /\ conns = <<>>
    /\ last = NoCall
    /\ pc = "call"
    /\ step = 0
    /\ df_users = <<>>
    /\ df_trades = <<>>
    /\ log = <<>>
    /\ result = FALSE
    /\ args \in [df : TablesOver(ColRows, MaxRows)]
    /\ ret = NoCheck

CallCheckBinaryColumn ==
    /\ pc = "call"
    /\ \E c \in ColumnNames :
         ret' = [fn |-> "check_binary_column", column_a |-> c, column_b |-> NoColumn,
                 out |-> CheckBinaryColumn(args.df, c)]
    /\ pc' = "returned"
    /\ UNCHANGED <<connection, conns, last, step, df_users, df_trades, log, result, args>>

CallCheckColumnGreaterThan ==
    /\ pc = "call"
    /\ \E a \in ColumnNames, b \in {NoColumn} \cup {Column(c) : c \in ColumnNames} :
         ret' = [fn |-> "check_column_greater_than", column_a |-> a, column_b |-> b,
                 out |-> CheckColumnGreaterThan(args.df, a, b)]
    /\ pc' = "returned"
    /\ UNCHANGED <<connection, conns, last, step, df_users, df_trades, log, result, args>>

NextCol == CallCheckBinaryColumn \/ CallCheckColumnGreaterThan

SpecCol == InitCol /\ [][NextCol]_vars

\* ------------------------------------------------------ foreign_key_check

\* What iterating column c of frame t yields at row i: the stored object, but
\* for a float64 NaN a float object of its own, unequal to every other one.
Item(t, df, i, cols, j) ==
    LET x == df[i][cols[j]]
    IN  IF x.k = "nan"
        THEN [k |-> "nan", v |-> (i * (Len(Columns) + 1) + j) * 2 + t]
        ELSE x

\* one tuple of zip(*(df[col] for col in cols))
KeyTuple(t, df, i, cols) == [j \in 1..Len(cols) |-> Item(t, df, i, cols, j)]

\* lines 230-265; the child frame is frame 1, the parent frame 2
ForeignKeyCheck(df_fk, fk_columns, df_pk, pk_columns) ==
    IF \/ \E j \in 1..Len(fk_columns) : fk_columns[j] \notin ColumnSet
       \/ \E j \in 1..Len(pk_columns) : pk_columns[j] \notin ColumnSet
    THEN [raised |-> "ValueError", all_valid |-> FALSE, mismatches |-> {}]
    ELSE LET primary_keys == {KeyTuple(2, df_pk, i, pk_columns) : i \in 1..Len(df_pk)}
             foreign_keys == {KeyTuple(1, df_fk, i, fk_columns) : i \in 1..Len(df_fk)}
             mismatches == foreign_keys \ primary_keys
         IN  [raised |-> "none",
              all_valid |-> Cardinality(mismatches) = 0,
              mismatches |-> mismatches]

FkRows == [a : {Num(0), Num(1), NaN}, b : {Num(0), None}]
FkColumnLists == {<<"a">>, <<"b">>, <<"a", "b">>, <<"zz">>}

InitFk ==
    /\ connection = 0
    /\ conns = <<>>
    /\ last = NoCall
    /\ pc = "call"
    /\ step = 0
    /\ df_users = <<>>
    /\ df_trades = <<>>
    /\ log = <<>>
    /\ result = FALSE
    /\ args \in [df_fk : TablesOver(FkRows, MaxRows), df_pk : TablesOver(FkRows, MaxParentRows),
                 fk_columns : FkColumnLists, pk_columns : FkColumnLists]
    /\ Len(args.fk_columns) = Len(args.pk_columns)
    /\ ret = [raised |-> "none", all_valid |-> FALSE, mismatches |-> {}]

CallForeignKeyCheck ==
    /\ pc = "call"
    /\ ret' = ForeignKeyCheck(args.df_fk, args.fk_columns, args.df_pk, args.pk_columns)
    /\ pc' = "returned"
    /\ UNCHANGED <<connection, conns, last, step, df_users, df_trades, log, result, args>>

NextFk == CallForeignKeyCheck

SpecFk == InitFk /\ [][NextFk]_vars

\* ================================================================ claims

\* ----------------------------------------------------------------- C1
Terminated == pc \in {"done", "aborted"}

\* C1: when the script has ended, normally or by an exception, every
\* connection it opened has been closed, by one call of close at most.
C1_ClosedOnEveryExit ==
    Terminated =>
        \A i \in 1..Len(conns) : conns[i].closed # 0 /\ conns[i].closeCalls <= 1

\* ----------------------------------------------------------------- C2
Connected == last.op = "run_query" /\ last.raised # "connect"

\* C2: a run_query that got a connection never raises; when execute fails
\* it logs, rolls back and returns None; when execute and commit succeed it
\* commits and returns the rows, or None for a statement without columns.
C2_QueryFailureSwallowed ==
    Connected =>
        /\ last.raised = "none"
        /\ last.exec \in {"sqlerror", "connlost"} =>
              last.txn = "rollback" /\ last.logged /\ last.result = "None"
        /\ last.exec = "norows" /\ last.commit = "ok" =>
              last.txn = "commit" /\ last.result = "None"
        /\ last.exec = "rows" /\ last.commit = "ok" =>
              last.txn = "commit" /\ last.result = "rows"

\* ----------------------------------------------------------------- C3
HeldLive == connection # 0 /\ conns[connection].closed = 0

\* C3: at most one connection of the object is live at any time; a call
\* opens a connection only when none is held or the held one is closed, and
\* otherwise keeps the held connection and touches no other.
C3_AtMostOneLive ==
    /\ [](Cardinality(Live(conns)) <= 1)
    /\ [][ /\ Len(conns') > Len(conns) => ~HeldLive
           /\ HeldLive => /\ connection' = connection
                          /\ Len(conns') = Len(conns)
                          /\ \A i \in 1..Len(conns) :
                                i # connection => conns'[i] = conns[i] ]_vars

\* a second connection opened after the first was closed, then reused by a
\* later query
C3_Witness ==
    /\ Len(conns) = 2
    /\ conns[1].closed = 1
    /\ conns[2].closed = 0
    /\ connection = 2
    /\ last.op = "run_query"
    /\ ~last.opened
    /\ last.raised = "none"

\* ----------------------------------------------------------------- C4
SameValue(x, y) == (IsNull(x) /\ IsNull(y)) \/ x = y

KeyColumns(subset) == IF subset.none THEN ColumnSet
                      ELSE {subset.cols[j] : j \in 1..Len(subset.cols)}

SameGroup(T, K, i, j) == \A c \in K : SameValue(T[i][c], T[j][c])

DupReturned == pc \in {"returned", "rechecked"} /\ ret.first.raised = "none"

\* C4: handle_duplicates returns one flag per row, in row order, and the
\* number of true flags; keep='first' flags the rows that have an earlier row
\* with equal key, keep='last' those that have a later one, keep=False those
\* that have any other one.
C4_DuplicateFlags ==
    DupReturned =>
        LET T == ret.given
            K == KeyColumns(args.subset)
            d == ret.first.duplicates
        IN  /\ Len(d) = Len(T)
            /\ ret.first.num_duplicates = Cardinality({i \in 1..Len(T) : d[i]})
            /\ \A i \in 1..Len(T) :
                 d[i] <=> \E j \in 1..Len(T) :
                            /\ SameGroup(T, K, i, j)
                            /\ CASE args.keep = "first" -> j < i
                                 [] args.keep = "last" -> j > i
                                 [] args.keep = "False" -> j # i

\* keep='last' on three rows with the same key, one part of it missing
C4_Witness ==
    /\ DupReturned
    /\ args.keep = "last"
    /\ Len(ret.given) = 3
    /\ ret.first.duplicates[1] /\ ret.first.duplicates[2] /\ ~ret.first.duplicates[3]
    /\ ret.first.num_duplicates = 2
    /\ IsNull(ret.given[1].a)

\* ----------------------------------------------------------------- C9
\* C9: with drop=True the returned frame holds the unflagged rows in their
\* original order, the caller's frame is as it was, and the returned frame
\* has no duplicates under the same key subset with keep=False.
C9_DropThenNoDuplicates ==
    pc = "rechecked" =>
        LET T == ret.given
            d == ret.first.duplicates
            kept == {i \in 1..Len(T) : ~d[i]}
            out == ret.first.df
        IN  /\ Len(out) = Cardinality(kept)
            /\ \A i \in kept : out[Cardinality({j \in kept : j <= i})] = T[i]
            /\ args.df = T
            /\ ret.again.raised = "none"
            /\ ret.again.num_duplicates = 0

\* rows were dropped and rows were kept
C9_Witness ==
    /\ pc = "rechecked"
    /\ ret.first.num_duplicates > 0
    /\ Len(ret.first.df) > 0
    /\ Len(ret.first.df) < Len(ret.given)
    /\ args.keep = "False"

\* ----------------------------------------------------------------- C5
BinaryReturned ==
    pc = "returned" /\ ret.fn = "check_binary_column" /\ ret.out.raised = "none"

\* C5 as claimed: true iff every value that is not missing is 0 or 1.
C5_NullsExcluded ==
    BinaryReturned =>
        (ret.out.value <=>
            \A i \in 1..Len(args.df) :
                LET x == args.df[i][ret.column_a]
                IN  IsNull(x) \/ x \in {Num(0), Num(1)})

\* C5 as amended: true iff every value of the column is 0 or 1; a missing
\* value makes the result false.
C5_NullsRejected ==
    BinaryReturned =>
        /\ ret.out.value <=>
              \A i \in 1..Len(args.df) : args.df[i][ret.column_a] \in {Num(0), Num(1)}
        /\ (\E i \in 1..Len(args.df) : IsNull(args.df[i][ret.column_a])) => ~ret.out.value

\* a column of 0s and 1s with one missing value
C5_Witness ==
    /\ BinaryReturned
    /\ Len(args.df) = 3
    /\ \E i \in 1..3 : IsNull(args.df[i][ret.column_a])
    /\ \A i \in 1..3 : LET x == args.df[i][ret.column_a]
                       IN  IsNull(x) \/ x \in {Num(0), Num(1)}
    /\ ~ret.out.value

\* ----------------------------------------------------------------- C8
GreaterReturned ==
    pc = "returned" /\ ret.fn = "check_column_greater_than" /\ ret.out.raised = "none"

Left(i) == args.df[i][ret.column_a]
Right(i) == IF ret.column_b.none THEN Num(0) ELSE args.df[i][ret.column_b.name]

FkReturned == pc = "returned" /\ ret.raised = "none"

ValueTuple(df, i, cols) == [j \in 1..Len(cols) |-> df[i][cols[j]]]
ChildValues == {ValueTuple(args.df_fk, i, args.fk_columns) : i \in 1..Len(args.df_fk)}
ParentValues == {ValueTuple(args.df_pk, i, args.pk_columns) : i \in 1..Len(args.df_pk)}

\* the values of a reported tuple
Shown(t) == [j \in 1..Len(t) |-> IF t[j].k = "nan" THEN NaN ELSE t[j]]

\* C6: the reported mismatches are the distinct child key tuples that are not
\* parent key tuples, each once; allValid iff there is none; an empty child
\* table is valid.
C6_MismatchesAreSetDifference ==
    FkReturned =>
        /\ {Shown(t) : t \in ret.mismatches} = ChildValues \ ParentValues
        /\ Cardinality(ret.mismatches) = Cardinality(ChildValues \ ParentValues)
        /\ ret.all_valid <=> (ChildValues \ ParentValues = {})
        /\ Len(args.df_fk) = 0 => ret.all_valid /\ ret.mismatches = {}

\* ----------------------------------------------------------------- C7
HasNull(t) == \E j \in 1..Len(t) : IsNull(t[j])

\* C7: a child key tuple with a missing component is not reported when the
\* parent has the same tuple, and equal child tuples with missing components
\* are reported once.
C7_NullMatchesNull ==
    FkReturned =>
        /\ \A t \in ret.mismatches : HasNull(t) => Shown(t) \notin ParentValues
        /\ \A t, u \in ret.mismatches : HasNull(t) /\ Shown(t) = Shown(u) => t = u

\* ---------------------------------------------------------------- C10
StepsOf(v) == IF v = "users" THEN UsersSteps ELSE TradesSteps
LinesOf(v) == SelectSeq(log, LAMBDA e : e.validator = v)
Finished(v) ==
    IF v = "users"
    THEN pc \in {"check_trades", "foreign_key_check", "close", "done"}
         \/ (pc = "aborted" /\ (LinesOf("trades") # <<>> \/ LinesOf("cross") # <<>>))
    ELSE pc \in {"foreign_key_check", "close", "done"}

\* C10: each validator logs its checks in numbered order, each once: the
\* checks that returned have a start line and a result line, whatever they
\* returned; a validator that was left without an exception ran all its
\* checks; after an exception the log ends with the start line of the check
\* that raised, and that check had a missing frame or column, or compared.
C10_FixedOrder ==
    /\ \A v \in {"users", "trades"} :
         LET lines == LinesOf(v)
             n == Len(lines)
         IN  /\ \A i \in 1..n :
                   /\ lines[i].step = (i + 1) \div 2
                   /\ lines[i].kind = IF i % 2 = 1 THEN "start" ELSE "result"
             /\ n <= 2 * StepsOf(v)
             /\ Finished(v) => n = 2 * StepsOf(v)
    /\ pc = "aborted" /\ log # <<>> =>
         LET e == log[Len(log)]
             df == IF e.validator = "users" THEN df_users ELSE df_trades
         IN  /\ e.kind = "start"
             /\ \/ df.none
                \/ StepColumns(e.validator, e.step) \cap df.missing # {}
                \/ StepCompares(e.validator, e.step)
    /\ pc \in {"check_users", "check_trades"} =>
         Len(LinesOf(IF pc = "check_users" THEN "users" ELSE "trades")) = 2 * (step - 1)

\* both validators ran to their end although the first check of each
\* returned False
C10_Witness ==
    /\ pc = "foreign_key_check"
    /\ Len(LinesOf("trades")) = 2 * TradesSteps
    /\ Len(LinesOf("users")) = 2 * UsersSteps
    /\ ~LinesOf("users")[2].value
    /\ ~LinesOf("trades")[2].value

====
